---- MODULE Spec2Model ----
(***************************************************************************)
(* Capped-supply fungible token contract (src/src/lib.rs).                 *)
(*                                                                         *)
(* The contract state is the struct Contract {token, owner_id, metadata,   *)
(* max_supply}; token is the embedded FungibleToken {accounts,             *)
(* total_supply} whose methods (internal_deposit, internal_withdraw,       *)
(* internal_transfer, internal_register_account, ft_transfer,              *)
(* storage_deposit, storage_unregister) are pulled in by the calls at      *)
(* lib.rs:103-108, 119-120 and the macros at lib.rs:142-143.               *)
(*                                                                         *)
(* Every public method is one atomic step.  A method is invoked, as in     *)
(* tests::test_basics, under an environment that fixes the predecessor     *)
(* account (caller) and the attached deposit.  A panic (assert!,           *)
(* assert_eq!, unwrap on None, env::panic) aborts the call and none of its *)
(* writes is kept.  The variable last records how the latest call ended:   *)
(* the method, the panic message or "ok", the value returned, the amount   *)
(* refunded by a Promise, the hook events emitted, and whether the         *)
(* contract state changed.                                                 *)
(***************************************************************************)
EXTENDS Integers, FiniteSets, Sequences, TLC

\* Stand-in for 2^128 - 1, the largest value of Balance / U128.
U128_MAX == 2

\* storage_balance_bounds().min = account_storage_usage * storage_byte_cost
StorageBalanceMin == 2

Accounts == {"alice", "bob", "carol"}

Amounts == 0 .. U128_MAX

\* Attached deposits the environment offers: none, one yoctoNEAR (the
\* confirm unit), the storage minimum.
Deposits == {0, 1, StorageBalanceMin}

\* Option::None for an AccountId argument, and the owner before construction.
NoAccount == "none"

\* Option::None for a Balance.
None == -1

VARIABLES state_exists, token, owner_id, max_supply, last

vars == <<state_exists, token, owner_id, max_supply, last>>

----------------------------------------------------------------------------
(* Panic messages of the source and of the embedded token.                 *)

OK == "ok"

ERR_NOT_ALLOWED == "ERR_NOT_ALLOWED"

ERR_OVERFLOW == "Overflow"

ERR_UNWRAP_NONE == "called Option::unwrap() on a None value"

ERR_ALREADY_INITIALIZED == "Already initialized"

ERR_INVALID_METADATA == "metadata.assert_valid failed"

ERR_ONE_YOCTO == "Requires attached deposit of exactly 1 yoctoNEAR"

ERR_NOT_REGISTERED == "The account is not registered"

ERR_ALREADY_REGISTERED == "The account is already registered"

ERR_BALANCE_OVERFLOW == "Balance overflow"

ERR_TOTAL_SUPPLY_OVERFLOW == "Total supply overflow"

ERR_NOT_ENOUGH_BALANCE == "The account doesn't have enough balance"

ERR_SAME_ACCOUNT == "Sender and receiver should be different"

ERR_ZERO_AMOUNT == "The amount should be a positive number"

ERR_DEPOSIT_TOO_SMALL == "The attached deposit is less than the minimum storage balance"

ERR_POSITIVE_BALANCE == "Can't unregister the account with the positive balance without force"

----------------------------------------------------------------------------
(* u128 arithmetic.                                                        *)

\* Mutant: the addition wraps modulo 2^128 instead of being checked.
checked_add_wrapping(a, b) == (a + b) % (U128_MAX + 1)

checked_add(a, b) == IF a + b <= U128_MAX THEN a + b ELSE None

checked_sub(a, b) == IF a >= b THEN a - b ELSE None

----------------------------------------------------------------------------
(* The embedded FungibleToken.  A token value is a record                  *)
(* [accounts, total_supply]; accounts is a function whose domain is the    *)
(* set of registered accounts.  Each operation yields [err, token].        *)

EmptyAccounts == [a \in {} |-> 0]

TokOk(t) == [err |-> OK, token |-> t]

TokPanic(msg, t) == [err |-> msg, token |-> t]

internal_register_account(t, account_id) ==
    IF account_id \in DOMAIN t.accounts
    THEN TokPanic(ERR_ALREADY_REGISTERED, t)
    ELSE TokOk([t EXCEPT !.accounts =
                  [a \in DOMAIN t.accounts \cup {account_id} |->
                      IF a = account_id THEN 0 ELSE t.accounts[a]]])

\* Mutant: the deposit credits the balance but not total_supply.
internal_deposit_keeps_total(t, account_id, amount) ==
    IF account_id \notin DOMAIN t.accounts
    THEN TokPanic(ERR_NOT_REGISTERED, t)
    ELSE LET new_balance == checked_add(t.accounts[account_id], amount)
         IN  IF new_balance = None THEN TokPanic(ERR_BALANCE_OVERFLOW, t)
             ELSE TokOk([t EXCEPT !.accounts[account_id] = new_balance])

internal_deposit(t, account_id, amount) ==
    IF account_id \notin DOMAIN t.accounts
    THEN TokPanic(ERR_NOT_REGISTERED, t)
    ELSE LET new_balance == checked_add(t.accounts[account_id], amount)
             new_total == checked_add(t.total_supply, amount)
         IN  IF new_balance = None THEN TokPanic(ERR_BALANCE_OVERFLOW, t)
             ELSE IF new_total = None THEN TokPanic(ERR_TOTAL_SUPPLY_OVERFLOW, t)
             ELSE TokOk([accounts |-> [t.accounts EXCEPT ![account_id] = new_balance],
                         total_supply |-> new_total])

\* Mutant: the withdrawal debits the balance but not total_supply.
internal_withdraw_keeps_total(t, account_id, amount) ==
    IF account_id \notin DOMAIN t.accounts
    THEN TokPanic(ERR_NOT_REGISTERED, t)
    ELSE LET new_balance == checked_sub(t.accounts[account_id], amount)
         IN  IF new_balance = None THEN TokPanic(ERR_NOT_ENOUGH_BALANCE, t)
             ELSE TokOk([t EXCEPT !.accounts[account_id] = new_balance])

\* Mutant: the subtraction saturates at zero instead of being checked.
internal_withdraw_saturating(t, account_id, amount) ==
    IF account_id \notin DOMAIN t.accounts
    THEN TokPanic(ERR_NOT_REGISTERED, t)
    ELSE LET taken == IF amount <= t.accounts[account_id]
                      THEN amount ELSE t.accounts[account_id]
         IN  TokOk([accounts |-> [t.accounts EXCEPT ![account_id] = @ - taken],
                    total_supply |-> t.total_supply - taken])

internal_withdraw(t, account_id, amount) ==
    IF account_id \notin DOMAIN t.accounts
    THEN TokPanic(ERR_NOT_REGISTERED, t)
    ELSE LET new_balance == checked_sub(t.accounts[account_id], amount)
             new_total == checked_sub(t.total_supply, amount)
         IN  IF new_balance = None THEN TokPanic(ERR_NOT_ENOUGH_BALANCE, t)
             ELSE IF new_total = None THEN TokPanic(ERR_TOTAL_SUPPLY_OVERFLOW, t)
             ELSE TokOk([accounts |-> [t.accounts EXCEPT ![account_id] = new_balance],
                         total_supply |-> new_total])

\* Mutant: the deposit is applied to the token as it was before the
\* withdrawal, so the debit of the sender is lost.
internal_transfer_lost_debit(t, sender_id, receiver_id, amount) ==
    IF sender_id = receiver_id THEN TokPanic(ERR_SAME_ACCOUNT, t)
    ELSE IF ~(amount > 0) THEN TokPanic(ERR_ZERO_AMOUNT, t)
    ELSE LET w == internal_withdraw(t, sender_id, amount)
         IN  IF w.err # OK THEN w
             ELSE internal_deposit(t, receiver_id, amount)

\* Mutant: the check that sender and receiver differ is dropped.
internal_transfer_allows_self(t, sender_id, receiver_id, amount) ==
    IF ~(amount > 0) THEN TokPanic(ERR_ZERO_AMOUNT, t)
    ELSE LET w == internal_withdraw(t, sender_id, amount)
         IN  IF w.err # OK THEN w
             ELSE internal_deposit(w.token, receiver_id, amount)

\* Mutant: a failed deposit is swallowed and the withdrawal is kept.
internal_transfer_keeps_withdrawal(t, sender_id, receiver_id, amount) ==
    IF sender_id = receiver_id THEN TokPanic(ERR_SAME_ACCOUNT, t)
    ELSE IF ~(amount > 0) THEN TokPanic(ERR_ZERO_AMOUNT, t)
    ELSE LET w == internal_withdraw(t, sender_id, amount)
             d == internal_deposit(w.token, receiver_id, amount)
         IN  IF w.err # OK THEN w
             ELSE IF d.err # OK THEN w
             ELSE d

internal_transfer(t, sender_id, receiver_id, amount) ==
    IF sender_id = receiver_id THEN TokPanic(ERR_SAME_ACCOUNT, t)
    ELSE IF ~(amount > 0) THEN TokPanic(ERR_ZERO_AMOUNT, t)
    ELSE LET w == internal_withdraw(t, sender_id, amount)
         IN  IF w.err # OK THEN w
             ELSE internal_deposit(w.token, receiver_id, amount)

----------------------------------------------------------------------------
(* Outcome of a call: how it ended, the contract state it leaves, the value *)
(* returned, the amount sent back to the caller by a Promise and the hook  *)
(* events it emitted.  A panic leaves the state the call found: writes     *)
(* made before it are discarded.                                           *)

\* The private hooks of lib.rs:133-139, as the event each one logs.  No
\* method of the contract calls them, and the macros of lib.rs:142-143 are
\* invoked without a hook argument.
on_account_closed(account_id, balance) ==
    [hook |-> "on_account_closed", account_id |-> account_id, amount |-> balance]

on_tokens_burned(account_id, amount) ==
    [hook |-> "on_tokens_burned", account_id |-> account_id, amount |-> amount]

Outcome(result, t, o, m, ret, ret_id, refund) ==
    [result |-> result, token |-> t, owner_id |-> o, max_supply |-> m,
     ret |-> ret, ret_id |-> ret_id, refund |-> refund, events |-> <<>>]

Panic(msg) == Outcome(msg, token, owner_id, max_supply, 0, NoAccount, 0)

\* Mutant: the state_exists assertion of lib.rs:82 is dropped.
new_no_state_check(owner, metadata_valid, cap) ==
    IF ~metadata_valid THEN Panic(ERR_INVALID_METADATA)
    ELSE Outcome(OK, [accounts |-> EmptyAccounts, total_supply |-> 0],
                 owner, cap, 0, NoAccount, 0)

new(owner, metadata_valid, cap) ==
    IF state_exists THEN Panic(ERR_ALREADY_INITIALIZED)
    ELSE IF ~metadata_valid THEN Panic(ERR_INVALID_METADATA)
    ELSE Outcome(OK, [accounts |-> EmptyAccounts, total_supply |-> 0],
                 owner, cap, 0, NoAccount, 0)

new_default_meta(owner, cap) == new(owner, TRUE, cap)

\* Mutant: the owner assertion of lib.rs:64-68 is dropped.
set_owner_no_check(caller, new_owner_id, attached_deposit) ==
    Outcome(OK, token, new_owner_id, max_supply, 0, new_owner_id, 0)

set_owner(caller, new_owner_id, attached_deposit) ==
    IF caller # owner_id THEN Panic(ERR_NOT_ALLOWED)
    ELSE Outcome(OK, token, new_owner_id, max_supply, 0, new_owner_id, 0)

get_owner(caller) ==
    Outcome(OK, token, owner_id, max_supply, 0, owner_id, 0)

\* Mutant: the account entry is written with balance 0 whether or not the
\* account is already registered (the account == None test is dropped and
\* the insert overwrites).
mint_deposit_resets_balance(account_id, amount) ==
    LET r == [token EXCEPT !.accounts =
                 [a \in DOMAIN token.accounts \cup {account_id} |->
                     IF a = account_id THEN 0 ELSE token.accounts[a]]]
        d == internal_deposit(r, account_id, amount)
    IN  IF d.err # OK THEN Panic(d.err)
        ELSE Outcome(OK, d.token, owner_id, max_supply, amount, NoAccount, 0)

\* lib.rs:103-109: register the account if absent, deposit, echo the amount.
mint_deposit(account_id, amount) ==
    LET r == IF account_id \notin DOMAIN token.accounts
             THEN internal_register_account(token, account_id)
             ELSE TokOk(token)
        d == IF r.err # OK THEN r
             ELSE internal_deposit(r.token, account_id, amount)
    IN  IF d.err # OK THEN Panic(d.err)
        ELSE Outcome(OK, d.token, owner_id, max_supply, amount, NoAccount, 0)

\* Mutant: the owner assertion of lib.rs:96-100 is dropped.
mint_no_owner_check(caller, account_id, amount, attached_deposit) ==
    LET next_total_supply == checked_add(token.total_supply, amount)
    IN  IF next_total_supply = None THEN Panic(ERR_UNWRAP_NONE)
        ELSE IF ~(next_total_supply <= max_supply) THEN Panic(ERR_OVERFLOW)
        ELSE mint_deposit(account_id, amount)

\* Mutant: the cap assertion of lib.rs:102 is dropped.
mint_no_cap(caller, account_id, amount, attached_deposit) ==
    IF caller # owner_id THEN Panic(ERR_NOT_ALLOWED)
    ELSE IF checked_add(token.total_supply, amount) = None THEN Panic(ERR_UNWRAP_NONE)
    ELSE mint_deposit(account_id, amount)

\* Mutant: the cap assertion compares the amount, not the next total.
mint_checks_amount_only(caller, account_id, amount, attached_deposit) ==
    IF caller # owner_id THEN Panic(ERR_NOT_ALLOWED)
    ELSE IF checked_add(token.total_supply, amount) = None THEN Panic(ERR_UNWRAP_NONE)
    ELSE IF ~(amount <= max_supply) THEN Panic(ERR_OVERFLOW)
    ELSE mint_deposit(account_id, amount)

\* Mutant: the cap assertion is strict (<), so the cap itself cannot be reached.
mint_strict_cap(caller, account_id, amount, attached_deposit) ==
    IF caller # owner_id THEN Panic(ERR_NOT_ALLOWED)
    ELSE IF checked_add(token.total_supply, amount) = None THEN Panic(ERR_UNWRAP_NONE)
    ELSE IF ~(token.total_supply + amount < max_supply) THEN Panic(ERR_OVERFLOW)
    ELSE mint_deposit(account_id, amount)

mint(caller, account_id, amount, attached_deposit) ==
    IF caller # owner_id THEN Panic(ERR_NOT_ALLOWED)
    ELSE LET next_total_supply == checked_add(token.total_supply, amount)
         IN  IF next_total_supply = None THEN Panic(ERR_UNWRAP_NONE)
             ELSE IF ~(next_total_supply <= max_supply) THEN Panic(ERR_OVERFLOW)
             ELSE mint_deposit(account_id, amount)

\* Mutant: the owner assertion of lib.rs:114-118 is dropped.
burn_no_owner_check(caller, account_id, amount, attached_deposit) ==
    IF attached_deposit # 1 THEN Panic(ERR_ONE_YOCTO)
    ELSE LET w == internal_withdraw(token, account_id, amount)
         IN  IF w.err # OK THEN Panic(w.err)
             ELSE Outcome(OK, w.token, owner_id, max_supply, 0, NoAccount, 0)

burn(caller, account_id, amount, attached_deposit) ==
    IF attached_deposit # 1 THEN Panic(ERR_ONE_YOCTO)
    ELSE IF caller # owner_id THEN Panic(ERR_NOT_ALLOWED)
    ELSE LET w == internal_withdraw(token, account_id, amount)
         IN  IF w.err # OK THEN Panic(w.err)
             ELSE Outcome(OK, w.token, owner_id, max_supply, 0, NoAccount, 0)

\* Mutant: assert_one_yocto of lib.rs:124 is dropped.
change_max_supply_no_yocto(caller, cap, attached_deposit) ==
    IF caller # owner_id THEN Panic(ERR_NOT_ALLOWED)
    ELSE Outcome(OK, token, owner_id, cap, 0, NoAccount, 0)

\* Mutant: the owner assertion is moved in front of assert_one_yocto.
change_max_supply_owner_first(caller, cap, attached_deposit) ==
    IF caller # owner_id THEN Panic(ERR_NOT_ALLOWED)
    ELSE IF attached_deposit # 1 THEN Panic(ERR_ONE_YOCTO)
    ELSE Outcome(OK, token, owner_id, cap, 0, NoAccount, 0)

change_max_supply(caller, cap, attached_deposit) ==
    IF attached_deposit # 1 THEN Panic(ERR_ONE_YOCTO)
    ELSE IF caller # owner_id THEN Panic(ERR_NOT_ALLOWED)
    ELSE Outcome(OK, token, owner_id, cap, 0, NoAccount, 0)

ft_transfer(caller, receiver_id, amount, attached_deposit) ==
    IF attached_deposit # 1 THEN Panic(ERR_ONE_YOCTO)
    ELSE LET r == internal_transfer(token, caller, receiver_id, amount)
         IN  IF r.err # OK THEN Panic(r.err)
             ELSE Outcome(OK, r.token, owner_id, max_supply, 0, NoAccount, 0)

storage_deposit(caller, account_id, attached_deposit) ==
    LET id == IF account_id = NoAccount THEN caller ELSE account_id
    IN  IF id \in DOMAIN token.accounts
        THEN Outcome(OK, token, owner_id, max_supply,
                     StorageBalanceMin, NoAccount, attached_deposit)
        ELSE IF attached_deposit < StorageBalanceMin
        THEN Panic(ERR_DEPOSIT_TOO_SMALL)
        ELSE LET r == internal_register_account(token, id)
             IN  IF r.err # OK THEN Panic(r.err)
                 ELSE Outcome(OK, r.token, owner_id, max_supply, StorageBalanceMin,
                              NoAccount, attached_deposit - StorageBalanceMin)

storage_unregister(caller, force, attached_deposit) ==
    IF attached_deposit # 1 THEN Panic(ERR_ONE_YOCTO)
    ELSE IF caller \notin DOMAIN token.accounts
    THEN Outcome(OK, token, owner_id, max_supply, 0, NoAccount, 0)
    ELSE IF token.accounts[caller] = 0 \/ force
    THEN Outcome(OK,
                 [accounts |-> [a \in DOMAIN token.accounts \ {caller} |->
                                   token.accounts[a]],
                  total_supply |-> token.total_supply - token.accounts[caller]],
                 owner_id, max_supply, 1, NoAccount, StorageBalanceMin + 1)
    ELSE Panic(ERR_POSITIVE_BALANCE)

ft_balance_of(account_id) ==
    IF account_id \in DOMAIN token.accounts THEN token.accounts[account_id] ELSE 0

ft_total_supply == token.total_supply

----------------------------------------------------------------------------
(* Steps.                                                                  *)

\* The call ends as out says: a call that panicked keeps the state it found
\* (Panic), a call that returned commits the state it computed.
Commit(op, out) ==
    /\ last' = [op |-> op, result |-> out.result, ret |-> out.ret,
                ret_id |-> out.ret_id, refund |-> out.refund,
                events |-> out.events,
                changed |-> <<out.token, out.owner_id, out.max_supply>>
                            # <<token, owner_id, max_supply>>]
    /\ state_exists' = (state_exists \/ out.result = OK)
    /\ token' = out.token
    /\ owner_id' = out.owner_id
    /\ max_supply' = out.max_supply

Init ==
    /\ state_exists = FALSE
    /\ token = [accounts |-> EmptyAccounts, total_supply |-> 0]
    /\ owner_id = NoAccount
    /\ max_supply = 0
    /\ last = [op |-> "deploy", result |-> OK, ret |-> 0,
               ret_id |-> NoAccount, refund |-> 0, events |-> <<>>,
               changed |-> FALSE]

CallNew ==
    \E o \in Accounts, v \in BOOLEAN, m \in Amounts :
        Commit("new", new(o, v, m))

CallNewDefaultMeta ==
    \E o \in Accounts, m \in Amounts :
        Commit("new_default_meta", new_default_meta(o, m))

CallSetOwner ==
    /\ state_exists
    /\ \E c \in Accounts, o \in Accounts, d \in Deposits :
        Commit("set_owner", set_owner(c, o, d))

CallGetOwner ==
    /\ state_exists
    /\ \E c \in Accounts : Commit("get_owner", get_owner(c))

CallMint ==
    /\ state_exists
    /\ \E c \in Accounts, a \in Accounts, n \in Amounts, d \in Deposits :
        Commit("mint", mint(c, a, n, d))

CallBurn ==
    /\ state_exists
    /\ \E c \in Accounts, a \in Accounts, n \in Amounts, d \in Deposits :
        Commit("burn", burn(c, a, n, d))

CallChangeMaxSupply ==
    /\ state_exists
    /\ \E c \in Accounts, m \in Amounts, d \in Deposits :
        Commit("change_max_supply", change_max_supply(c, m, d))

CallFtTransfer ==
    /\ state_exists
    /\ \E c \in Accounts, r \in Accounts, n \in Amounts, d \in Deposits :
        Commit("ft_transfer", ft_transfer(c, r, n, d))

CallStorageDeposit ==
    /\ state_exists
    /\ \E c \in Accounts, a \in Accounts \cup {NoAccount}, d \in Deposits :
        Commit("storage_deposit", storage_deposit(c, a, d))

CallStorageUnregister ==
    /\ state_exists
    /\ \E c \in Accounts, f \in BOOLEAN, d \in Deposits :
        Commit("storage_unregister", storage_unregister(c, f, d))

Next ==
    \/ CallNew
    \/ CallNewDefaultMeta
    \/ CallSetOwner
    \/ CallGetOwner
    \/ CallMint
    \/ CallBurn
    \/ CallChangeMaxSupply
    \/ CallFtTransfer
    \/ CallStorageDeposit
    \/ CallStorageUnregister

Spec == Init /\ [][Next]_vars

----------------------------------------------------------------------------
(* Vocabulary of the properties.                                           *)

balances == token.accounts

total_supply == token.total_supply

registered == DOMAIN token.accounts

RECURSIVE SumOver(_, _)
SumOver(f, S) ==
    IF S = {} THEN 0
    ELSE LET a == CHOOSE x \in S : TRUE
         IN  f[a] + SumOver(f, S \ {a})

SumBalances(t) == SumOver(t.accounts, DOMAIN t.accounts)

\* The error kinds of the design, by panic message.
ErrKind(msg) ==
    CASE msg = OK -> "None"
      [] msg = ERR_NOT_ALLOWED -> "NotAuthorized"
      [] msg = ERR_ALREADY_INITIALIZED -> "AlreadyInitialized"
      [] msg \in {ERR_OVERFLOW, ERR_UNWRAP_NONE, ERR_BALANCE_OVERFLOW,
                  ERR_TOTAL_SUPPLY_OVERFLOW} -> "Overflow"
      [] msg = ERR_NOT_ENOUGH_BALANCE -> "InsufficientBalance"
      [] msg \in {ERR_NOT_REGISTERED} -> "AccountNotRegistered"
      [] msg = ERR_POSITIVE_BALANCE -> "AccountNotEmpty"
      [] msg = ERR_SAME_ACCOUNT -> "SelfTransferNotAllowed"
      [] msg = ERR_ZERO_AMOUNT -> "ZeroAmount"
      [] msg = ERR_DEPOSIT_TOO_SMALL -> "StorageDepositInsufficient"
      [] msg = ERR_ONE_YOCTO -> "InvalidAttachedDeposit"
      [] OTHER -> "Other"

\* The outcome leaves the contract state exactly as the call found it.
StateKept(out) ==
    /\ out.token = token
    /\ out.owner_id = owner_id
    /\ out.max_supply = max_supply

\* The outcome leaves every balance except those of the accounts in S, and
\* the registration of every account outside S, as the call found them.
OthersKept(out, S) ==
    /\ DOMAIN out.token.accounts \ S = registered \ S
    /\ \A b \in registered \ S : out.token.accounts[b] = balances[b]

----------------------------------------------------------------------------
(* Ledger invariants.                                                      *)

\* C1: in every reachable state total_supply equals the sum of the balances
\* of all registered accounts.
C1_SupplyIsSumOfBalances == total_supply = SumBalances(token)

\* C1 case: a burn has succeeded on a ledger of three registered accounts
\* that still holds tokens.
C1_Witness ==
    /\ last.op = "burn" /\ last.result = OK
    /\ registered = Accounts
    /\ total_supply > 0

\* C2 as stated: in every reachable state total_supply <= max_supply.
C2_Original == state_exists => total_supply <= max_supply

\* C2 amended: total_supply <= max_supply holds after construction and after
\* every successful mint, and every step preserves it except a successful
\* change_max_supply whose new cap is below the current total_supply.
C2_CapKeptExceptLowering ==
    [][ /\ (last'.op \in {"new", "new_default_meta", "mint"} /\ last'.result = OK)
            => total_supply' <= max_supply'
        /\ (/\ total_supply <= max_supply
            /\ ~(/\ last'.op = "change_max_supply" /\ last'.result = OK
                  /\ max_supply' < total_supply))
            => total_supply' <= max_supply' ]_vars

\* C2 case: a mint has filled the supply exactly up to a cap below U128_MAX.
C2_Witness ==
    /\ last.op = "mint" /\ last.result = OK
    /\ total_supply = max_supply /\ max_supply = 1

----------------------------------------------------------------------------
(* Mint.                                                                   *)

\* C3: in every reachable state, a mint by the owner with
\* total_supply + amount > max_supply fails with Overflow and leaves balances,
\* total_supply and the registered set as they were.
C3_CapEnforcement ==
    \A a \in Accounts, n \in Amounts, d \in Deposits :
        (state_exists /\ total_supply + n > max_supply)
        => LET out == mint(owner_id, a, n, d)
           IN  /\ ErrKind(out.result) = "Overflow"
               /\ StateKept(out)

\* C3 case: a mint was refused with Overflow on a full ledger while some
\* account is still unregistered.
C3_Witness ==
    /\ last.op = "mint" /\ last.result = ERR_OVERFLOW
    /\ total_supply = max_supply /\ total_supply > 0
    /\ registered # Accounts

\* C4: in every reachable state, a mint by the owner with
\* total_supply + amount <= max_supply succeeds, registers the account if
\* absent, adds exactly amount to its balance and to total_supply, leaves the
\* other balances alone and returns amount.
C4_MintSuccess ==
    \A a \in Accounts, n \in Amounts, d \in Deposits :
        (state_exists /\ total_supply + n <= max_supply)
        => LET out == mint(owner_id, a, n, d)
           IN  /\ out.result = OK
               /\ out.ret = n
               /\ DOMAIN out.token.accounts = registered \cup {a}
               /\ out.token.accounts[a] = ft_balance_of(a) + n
               /\ out.token.total_supply = total_supply + n
               /\ OthersKept(out, {a})
               /\ out.owner_id = owner_id
               /\ out.max_supply = max_supply

\* C4 case: a mint of a positive amount has succeeded and reached the cap
\* exactly.
C4_Witness ==
    /\ last.op = "mint" /\ last.result = OK /\ last.ret = U128_MAX
    /\ total_supply = max_supply

----------------------------------------------------------------------------
(* Authorization.                                                          *)

NonOwners == Accounts \ {owner_id}

\* C5: in every reachable state, a mint, burn, set_owner or change_max_supply
\* call from a caller other than the owner fails and leaves owner,
\* max_supply, total_supply, balances and the registered set as they were,
\* whatever the arguments and the attached deposit.
C5_AuthorizationFrame ==
    state_exists =>
    \A c \in NonOwners, d \in Deposits :
        /\ \A a \in Accounts, n \in Amounts :
              /\ mint(c, a, n, d).result # OK /\ StateKept(mint(c, a, n, d))
              /\ burn(c, a, n, d).result # OK /\ StateKept(burn(c, a, n, d))
        /\ \A o \in Accounts :
              set_owner(c, o, d).result # OK /\ StateKept(set_owner(c, o, d))
        /\ \A m \in Amounts :
              /\ change_max_supply(c, m, d).result # OK
              /\ StateKept(change_max_supply(c, m, d))

\* C5 case: a set_owner call was refused as unauthorized on a ledger that
\* holds tokens.
C5_Witness ==
    /\ last.op = "set_owner" /\ last.result = ERR_NOT_ALLOWED
    /\ total_supply > 0

\* C6 as stated: a call of mint, burn, set_owner or change_max_supply from a
\* non-owner fails with NotAuthorized, whatever the attached deposit.
C6_Original ==
    state_exists =>
    \A c \in NonOwners, d \in Deposits :
        /\ \A a \in Accounts, n \in Amounts :
              /\ ErrKind(mint(c, a, n, d).result) = "NotAuthorized"
              /\ ErrKind(burn(c, a, n, d).result) = "NotAuthorized"
        /\ \A o \in Accounts :
              ErrKind(set_owner(c, o, d).result) = "NotAuthorized"
        /\ \A m \in Amounts :
              ErrKind(change_max_supply(c, m, d).result) = "NotAuthorized"

\* C6 amended: in mint and set_owner the owner check is the first check, so a
\* non-owner call fails with NotAuthorized whatever the attached deposit; in
\* burn and change_max_supply the confirm-unit check comes first, so a
\* non-owner call fails with InvalidAttachedDeposit when the attached deposit
\* is not exactly one unit and with NotAuthorized when it is.
C6_AuthorizationOrdering ==
    state_exists =>
    \A c \in NonOwners, d \in Deposits :
        LET expected == IF d = 1 THEN "NotAuthorized" ELSE "InvalidAttachedDeposit"
        IN  /\ \A a \in Accounts, n \in Amounts :
                  /\ ErrKind(mint(c, a, n, d).result) = "NotAuthorized"
                  /\ ErrKind(burn(c, a, n, d).result) = expected
            /\ \A o \in Accounts :
                  ErrKind(set_owner(c, o, d).result) = "NotAuthorized"
            /\ \A m \in Amounts :
                  ErrKind(change_max_supply(c, m, d).result) = expected

\* C6 case: a change_max_supply call carrying the confirm unit was refused as
\* unauthorized.
C6_Witness ==
    last.op = "change_max_supply" /\ last.result = ERR_NOT_ALLOWED

----------------------------------------------------------------------------
(* Transfer.                                                               *)

\* C7: in every reachable state, a successful transfer of 0 < amount <=
\* balance(from) between distinct registered accounts debits from by exactly
\* amount, credits to by exactly amount and leaves total_supply, max_supply,
\* owner and every other balance as they were.
C7_TransferConservation ==
    \A f \in registered, t \in registered, n \in Amounts, d \in Deposits :
        (state_exists /\ f # t /\ 0 < n /\ n <= balances[f])
        => LET out == ft_transfer(f, t, n, d)
           IN  out.result = OK
               => /\ out.token.accounts[f] = balances[f] - n
                  /\ out.token.accounts[t] = balances[t] + n
                  /\ OthersKept(out, {f, t})
                  /\ DOMAIN out.token.accounts = registered
                  /\ out.token.total_supply = total_supply
                  /\ out.max_supply = max_supply
                  /\ out.owner_id = owner_id

\* C7 case: a transfer has succeeded among three registered accounts and two
\* of them hold tokens afterwards.
C7_Witness ==
    /\ last.op = "ft_transfer" /\ last.result = OK
    /\ registered = Accounts
    /\ Cardinality({a \in registered : balances[a] > 0}) = 2

\* C8 as stated: a transfer whose sender and receiver are the same account
\* fails with SelfTransferNotAllowed and changes nothing, for every account
\* and amount.
C8_Original ==
    state_exists =>
    \A a \in Accounts, n \in Amounts, d \in Deposits :
        /\ ErrKind(ft_transfer(a, a, n, d).result) = "SelfTransferNotAllowed"
        /\ StateKept(ft_transfer(a, a, n, d))

\* C8 amended: a transfer whose sender and receiver are the same account
\* always fails and changes nothing, for every account and amount; it fails
\* with SelfTransferNotAllowed when exactly one unit of deposit is attached
\* and with InvalidAttachedDeposit otherwise.
C8_SelfTransferRejected ==
    state_exists =>
    \A a \in Accounts, n \in Amounts, d \in Deposits :
        /\ ErrKind(ft_transfer(a, a, n, d).result) =
              (IF d = 1 THEN "SelfTransferNotAllowed" ELSE "InvalidAttachedDeposit")
        /\ StateKept(ft_transfer(a, a, n, d))

\* C8 case: a transfer was refused because sender and receiver coincide, on a
\* ledger that holds tokens.
C8_Witness ==
    /\ last.op = "ft_transfer" /\ last.result = ERR_SAME_ACCOUNT
    /\ total_supply > 0

\* The error kind of the first check that fails in a transfer between
\* distinct accounts, in the order amount, sender registered, sender balance,
\* receiver registered; "None" when none fails.
TransferFault(f, t, n) ==
    IF n = 0 THEN "ZeroAmount"
    ELSE IF f \notin registered THEN "AccountNotRegistered"
    ELSE IF n > balances[f] THEN "InsufficientBalance"
    ELSE IF t \notin registered THEN "AccountNotRegistered"
    ELSE "None"

\* C9 as stated: a transfer between distinct accounts with amount == 0, an
\* unregistered sender or receiver, or amount above the sender's balance fails
\* with ZeroAmount, AccountNotRegistered, InsufficientBalance respectively
\* and changes nothing.
C9_Original ==
    state_exists =>
    \A f \in Accounts, t \in Accounts, n \in Amounts, d \in Deposits :
        (f # t /\ TransferFault(f, t, n) # "None")
        => /\ ErrKind(ft_transfer(f, t, n, d).result) = TransferFault(f, t, n)
           /\ StateKept(ft_transfer(f, t, n, d))

\* C9 amended: such a transfer fails and changes nothing; with exactly one
\* unit of deposit attached it fails with ZeroAmount, AccountNotRegistered or
\* InsufficientBalance (the first failing check), with any other attached
\* deposit it fails with InvalidAttachedDeposit.  No transfer, failed or
\* successful, changes the sum of the balances or total_supply: the sender
\* is never debited unless the receiver is credited in the same call.
C9_TransferAtomicity ==
    state_exists =>
    \A f \in Accounts, t \in Accounts, n \in Amounts, d \in Deposits :
        LET out == ft_transfer(f, t, n, d)
        IN  /\ SumBalances(out.token) = SumBalances(token)
            /\ out.token.total_supply = total_supply
            /\ (f # t /\ TransferFault(f, t, n) # "None")
               => /\ ErrKind(out.result) =
                       (IF d = 1 THEN TransferFault(f, t, n)
                        ELSE "InvalidAttachedDeposit")
                  /\ StateKept(out)

\* C9 case: a transfer was refused for an unregistered account while the
\* whole supply is held in balances.
C9_Witness ==
    /\ last.op = "ft_transfer" /\ last.result = ERR_NOT_REGISTERED
    /\ total_supply = U128_MAX

----------------------------------------------------------------------------
(* Burn.                                                                   *)

\* C10: in every reachable state, a burn by the owner with exactly one unit
\* of deposit attached, of an amount <= balance(account) of a registered
\* account, succeeds, debits the account and total_supply by exactly amount
\* and leaves every other balance, max_supply and owner as they were.
C10_BurnSuccess ==
    \A a \in registered, n \in Amounts :
        (state_exists /\ n <= balances[a])
        => LET out == burn(owner_id, a, n, 1)
           IN  /\ out.result = OK
               /\ out.token.accounts[a] = balances[a] - n
               /\ out.token.total_supply = total_supply - n
               /\ OthersKept(out, {a})
               /\ DOMAIN out.token.accounts = registered
               /\ out.max_supply = max_supply
               /\ out.owner_id = owner_id

\* C10 case: a burn has succeeded and changed the ledger, leaving tokens in
\* another balance.
C10_Witness ==
    /\ last.op = "burn" /\ last.result = OK /\ last.changed
    /\ total_supply > 0

\* C11: in every reachable state, a burn by the owner with the confirm unit
\* attached fails with AccountNotRegistered when the account is not
\* registered and with InsufficientBalance when the amount exceeds its
\* balance; in both cases balances and total_supply stay as they were.
C11_BurnFailure ==
    state_exists =>
    \A a \in Accounts, n \in Amounts :
        LET out == burn(owner_id, a, n, 1)
        IN  /\ a \notin registered
               => (ErrKind(out.result) = "AccountNotRegistered" /\ StateKept(out))
            /\ (a \in registered /\ n > balances[a])
               => (ErrKind(out.result) = "InsufficientBalance" /\ StateKept(out))
            /\ out.token.total_supply >= 0

\* C11 case: a burn was refused for insufficient balance on a ledger that
\* holds tokens.
C11_Witness ==
    /\ last.op = "burn" /\ last.result = ERR_NOT_ENOUGH_BALANCE
    /\ total_supply > 0

----------------------------------------------------------------------------
(* Confirm unit.                                                           *)

\* C12: in every reachable state, burn and change_max_supply succeed only
\* with an attached deposit of exactly one unit; called by the owner with
\* any other deposit they fail with InvalidAttachedDeposit and change
\* nothing.  The outcome of mint and set_owner does not depend on the
\* attached deposit, and the owner's set_owner succeeds with none attached.
C12_ConfirmUnit ==
    state_exists =>
    \A c \in Accounts, d \in Deposits :
        /\ \A a \in Accounts, n \in Amounts :
              /\ burn(c, a, n, d).result = OK => d = 1
              /\ (c = owner_id /\ d # 1)
                 => /\ ErrKind(burn(c, a, n, d).result) = "InvalidAttachedDeposit"
                    /\ StateKept(burn(c, a, n, d))
              /\ mint(c, a, n, d) = mint(c, a, n, 1)
        /\ \A m \in Amounts :
              /\ change_max_supply(c, m, d).result = OK => d = 1
              /\ (c = owner_id /\ d # 1)
                 => /\ ErrKind(change_max_supply(c, m, d).result)
                         = "InvalidAttachedDeposit"
                    /\ StateKept(change_max_supply(c, m, d))
        /\ \A o \in Accounts :
              /\ set_owner(c, o, d) = set_owner(c, o, 1)
              /\ c = owner_id => set_owner(c, o, 0).result = OK

\* C12 case: a change_max_supply call was refused for its attached deposit
\* on a ledger that holds tokens.
C12_Witness ==
    /\ last.op = "change_max_supply" /\ last.result = ERR_ONE_YOCTO
    /\ total_supply > 0

----------------------------------------------------------------------------
(* Event hooks.                                                            *)

\* C13 as stated: every successful burn(account, amount) emits exactly one
\* on_tokens_burned(account, amount) event, and a failed burn emits none.
C13_BurnEvent ==
    state_exists =>
    \A c \in Accounts, a \in Accounts, n \in Amounts, d \in Deposits :
        LET out == burn(c, a, n, d)
        IN  out.events = IF out.result = OK
                         THEN <<on_tokens_burned(a, n)>>
                         ELSE <<>>

----------------------------------------------------------------------------
(* Storage accounting.                                                     *)

\* The storage cost of the growth an outcome caused: the price of one
\* account entry for every account it registered.
StorageCost(out) ==
    StorageBalanceMin * Cardinality(DOMAIN out.token.accounts \ registered)

\* C14 as stated: a call that would grow the account store (an owner mint
\* within the cap to an unregistered account, a storage_deposit for an
\* unregistered account) with an attached deposit below the storage cost
\* fails with StorageDepositInsufficient and changes nothing.
C14_StoragePaymentOnGrowth ==
    state_exists =>
    \A a \in Accounts \ registered, d \in Deposits :
        d < StorageBalanceMin
        => /\ \A n \in Amounts :
                 total_supply + n <= max_supply
                 => /\ ErrKind(mint(owner_id, a, n, d).result)
                         = "StorageDepositInsufficient"
                    /\ StateKept(mint(owner_id, a, n, d))
           /\ \A c \in Accounts :
                 /\ ErrKind(storage_deposit(c, a, d).result)
                      = "StorageDepositInsufficient"
                 /\ StateKept(storage_deposit(c, a, d))

\* C15 as stated: every successful mint, burn, change_max_supply or
\* storage_deposit whose attached deposit covers the storage cost of the
\* growth it caused refunds the attached deposit minus that cost.
C15_StorageRefund ==
    state_exists =>
    \A c \in Accounts, a \in Accounts, d \in Deposits :
        LET Settled(out) ==
                (out.result = OK /\ d >= StorageCost(out))
                => out.refund = d - StorageCost(out)
        IN  /\ \A n \in Amounts :
                  /\ Settled(mint(c, a, n, d))
                  /\ Settled(burn(c, a, n, d))
                  /\ Settled(change_max_supply(c, n, d))
            /\ Settled(storage_deposit(c, a, d))

----------------------------------------------------------------------------
(* Ownership.                                                              *)

\* C16: after construction the owner changes only in a successful set_owner
\* whose caller is the current owner; that call sets the owner to its
\* argument, returns it and touches nothing else; no other method changes
\* the owner.  In the state a successful set_owner leaves, the privileged
\* calls of every account other than the new owner are refused and those of
\* the new owner are not refused as unauthorized.
C16_OwnerSuccession ==
    state_exists =>
    /\ \A c \in Accounts, o \in Accounts, d \in Deposits :
          LET out == set_owner(c, o, d)
          IN  /\ c = owner_id
                 => /\ out.result = OK
                    /\ out.owner_id = o
                    /\ out.ret_id = o
                    /\ out.token = token
                    /\ out.max_supply = max_supply
              /\ c # owner_id => (out.result # OK /\ out.owner_id = owner_id)
    /\ \A c \in Accounts, a \in Accounts, n \in Amounts, d \in Deposits :
          /\ mint(c, a, n, d).owner_id = owner_id
          /\ burn(c, a, n, d).owner_id = owner_id
          /\ change_max_supply(c, n, d).owner_id = owner_id
          /\ ft_transfer(c, a, n, d).owner_id = owner_id
          /\ storage_deposit(c, a, d).owner_id = owner_id
          /\ storage_deposit(c, NoAccount, d).owner_id = owner_id
          /\ \A f \in BOOLEAN : storage_unregister(c, f, d).owner_id = owner_id
          /\ get_owner(c).owner_id = owner_id /\ get_owner(c).ret_id = owner_id
          /\ \A v \in BOOLEAN : new(a, v, n).owner_id = owner_id
          /\ new_default_meta(a, n).owner_id = owner_id
    /\ (last.op = "set_owner" /\ last.result = OK)
       => /\ owner_id = last.ret_id
          /\ \A c \in Accounts, a \in Accounts, n \in Amounts, d \in Deposits :
                LET privileged == {mint(c, a, n, d), burn(c, a, n, d),
                                   set_owner(c, a, d), change_max_supply(c, n, d)}
                IN  /\ c # last.ret_id => \A out \in privileged : out.result # OK
                    /\ c = last.ret_id
                       => \A out \in privileged : out.result # ERR_NOT_ALLOWED

\* C16 case: a set_owner call has handed a ledger that holds tokens to
\* another account.
C16_Witness ==
    /\ last.op = "set_owner" /\ last.result = OK /\ last.changed
    /\ total_supply > 0

----------------------------------------------------------------------------
(* Numeric range.                                                          *)

\* C17: in every reachable state total_supply and every balance lie in
\* 0 .. U128_MAX, and a mint whose total_supply + amount would exceed
\* U128_MAX fails (with Overflow when called by the owner) and leaves
\* balances and total_supply as they were, whatever max_supply is.
C17_NumericRange ==
    /\ total_supply \in 0 .. U128_MAX
    /\ \A a \in registered : balances[a] \in 0 .. U128_MAX
    /\ state_exists =>
       \A c \in Accounts, a \in Accounts, n \in Amounts, d \in Deposits :
           total_supply + n > U128_MAX
           => LET out == mint(c, a, n, d)
              IN  /\ out.result # OK
                  /\ StateKept(out)
                  /\ c = owner_id => ErrKind(out.result) = "Overflow"

\* C17 case: a mint was refused because total_supply + amount does not fit
\* the integer range.
C17_Witness ==
    /\ last.op = "mint" /\ last.result = ERR_UNWRAP_NONE
    /\ total_supply > 0

----------------------------------------------------------------------------
(* Registration.                                                           *)

\* C18: in every reachable state, registering an already registered account
\* changes no balance: storage_deposit for it succeeds and leaves the state
\* as it was, internal_register_account refuses it, and an owner mint within
\* the cap to an account with balance b yields balance b + amount.
C18_RegistrationIdempotence ==
    state_exists =>
    \A a \in registered, d \in Deposits :
        /\ \A c \in Accounts :
              /\ storage_deposit(c, a, d).result = OK
              /\ StateKept(storage_deposit(c, a, d))
        /\ storage_deposit(a, NoAccount, d).result = OK
        /\ StateKept(storage_deposit(a, NoAccount, d))
        /\ internal_register_account(token, a).err # OK
        /\ \A n \in Amounts :
              total_supply + n <= max_supply
              => /\ mint(owner_id, a, n, d).result = OK
                 /\ mint(owner_id, a, n, d).token.accounts[a] = balances[a] + n

\* C18 case: a mint of 1 has raised the balance of an account that already
\* held 1 to 2 (no other account holds tokens, so the mint went to it).
C18_Witness ==
    /\ last.op = "mint" /\ last.result = OK /\ last.ret = 1
    /\ total_supply = 2
    /\ \E a \in registered : balances[a] = 2

----------------------------------------------------------------------------
(* Construction.                                                           *)

\* C19: before construction new and new_default_meta (with valid metadata)
\* succeed and leave total_supply 0, no registered account, the given owner
\* and the given cap; once the state exists every call of new or
\* new_default_meta fails with AlreadyInitialized and leaves owner,
\* max_supply, total_supply and balances as they were.
C19_SingleInitialization ==
    \A o \in Accounts, m \in Amounts :
        /\ ~state_exists
           => /\ \A out \in {new(o, TRUE, m), new_default_meta(o, m)} :
                    /\ out.result = OK
                    /\ out.token = [accounts |-> EmptyAccounts, total_supply |-> 0]
                    /\ out.owner_id = o
                    /\ out.max_supply = m
              /\ new(o, FALSE, m).result # OK
        /\ state_exists
           => \A out \in {new(o, TRUE, m), new(o, FALSE, m), new_default_meta(o, m)} :
                 /\ ErrKind(out.result) = "AlreadyInitialized"
                 /\ StateKept(out)

\* C19 case: a second new was refused on a ledger that holds tokens.
C19_Witness ==
    /\ last.op = "new" /\ last.result = ERR_ALREADY_INITIALIZED
    /\ total_supply > 0

----------------------------------------------------------------------------
(* Supply control.                                                         *)

\* C20: in every reachable state, the only call whose outcome has a larger
\* total_supply is a successful mint by the current owner; no call of a
\* non-owner increases total_supply, and ft_transfer never changes it.
C20_SupplyOwnerControlled ==
    state_exists =>
    \A c \in Accounts, a \in Accounts, n \in Amounts, d \in Deposits :
        /\ mint(c, a, n, d).token.total_supply > total_supply
           => (c = owner_id /\ mint(c, a, n, d).result = OK)
        /\ burn(c, a, n, d).token.total_supply <= total_supply
        /\ ft_transfer(c, a, n, d).token.total_supply = total_supply
        /\ change_max_supply(c, n, d).token.total_supply = total_supply
        /\ set_owner(c, a, d).token.total_supply = total_supply
        /\ get_owner(c).token.total_supply = total_supply
        /\ storage_deposit(c, a, d).token.total_supply = total_supply
        /\ storage_deposit(c, NoAccount, d).token.total_supply = total_supply
        /\ \A f \in BOOLEAN :
              storage_unregister(c, f, d).token.total_supply <= total_supply
        /\ \A v \in BOOLEAN : new(a, v, n).token.total_supply = total_supply
        /\ new_default_meta(a, n).token.total_supply = total_supply

\* C20 case: a mint of 1 has raised total_supply to 1 under a cap of 2.
C20_Witness ==
    /\ last.op = "mint" /\ last.result = OK /\ last.ret = 1
    /\ total_supply = 1 /\ max_supply = 2

====
